---- MODULE Spec2Model ----
(* Model of the vector editor's command core (src/main.py, class VectorEditor): *)
(* the shape collection, the id counter, the create / list / info / delete /   *)
(* clear / exit commands and the read-process loop around them.                *)
(* The shape classes (shape.py, shapes_2d.py, shapes_3d.py) are imported by     *)
(* main.py; their constructors are modelled from sections 3 and 4 of spec.md.  *)
EXTENDS Integers, Sequences, FiniteSets, TLC

\* shapes: the collection, id -> shape; next_id: the id counter;
\* running: run()'s loop has not been left;
\* last: history, the command just processed (see Done);
\* given: history, the ids assigned to created shapes, in creation order;
\* reported: history, the id and mapping of the latest successful info command
\* whose shape has not been removed since (<<>> when there is none), and
\* whether the info command before it reported on the same id
VARIABLES shapes, next_id, running, last, given, reported

vars == <<shapes, next_id, running, last, given, reported>>

(* ------------------------------------------------------------------------ *)
(* Bounds                                                                   *)
(* ------------------------------------------------------------------------ *)

\* create commands are explored while next_id <= MaxId
MaxId == 2

\* tokens typed after the required parameters of a create command
MaxExtra == 2

(* ------------------------------------------------------------------------ *)
(* Tokens and their conversion to numbers                                   *)
(* ------------------------------------------------------------------------ *)

\* A number is [kind, num, den]: kind is the Python type ("int" or "float"),
\* num/den the value.
IntRange == (0 - 1)..(MaxId + 2)

\* int(token): the decimal integer texts; anything else raises ValueError
IsIntText(t) == \E k \in IntRange : ToString(k) = t

IntOf(t) ==
    [kind |-> "int", num |-> CHOOSE k \in IntRange : ToString(k) = t, den |-> 1]

\* float(token): integer texts and decimal texts; anything else raises ValueError
IsFloatText(t) == IsIntText(t) \/ t = "3.5"

FloatOf(t) ==
    IF t = "3.5"
    THEN [kind |-> "float", num |-> 7, den |-> 2]
    ELSE [kind |-> "float", num |-> CHOOSE k \in IntRange : ToString(k) = t, den |-> 1]

\* str.lower() on the words used as commands and type names
Lower(s) ==
    CASE s = "Circle" -> "circle"
      [] s = "POLYGON" -> "polygon"
      [] s = "EXIT" -> "exit"
      [] OTHER -> s

\* str.capitalize() on the registered type names
Capitalize(s) ==
    CASE s = "point" -> "Point"
      [] s = "line" -> "Line"
      [] s = "circle" -> "Circle"
      [] s = "square" -> "Square"
      [] s = "rectangle" -> "Rectangle"
      [] s = "polygon" -> "Polygon"
      [] s = "parallelepiped" -> "Parallelepiped"
      [] s = "tetrahedron" -> "Tetrahedron"
      [] OTHER -> s

(* ------------------------------------------------------------------------ *)
(* The registry of shape types                                              *)
(* ------------------------------------------------------------------------ *)

shape_types ==
    [point          |-> [class |-> "Point",
                         params |-> <<"x", "y">>],
     line           |-> [class |-> "Line",
                         params |-> <<"x1", "y1", "x2", "y2">>],
     circle         |-> [class |-> "Circle",
                         params |-> <<"center_x", "center_y", "radius">>],
     square         |-> [class |-> "Square",
                         params |-> <<"x", "y", "side_length">>],
     rectangle      |-> [class |-> "Rectangle",
                         params |-> <<"x", "y", "width", "height">>],
     polygon        |-> [class |-> "RegularPolygon",
                         params |-> <<"center_x", "center_y", "num_sides", "side_length">>],
     parallelepiped |-> [class |-> "Parallelepiped",
                         params |-> <<"x", "y", "z", "width", "height", "depth">>],
     tetrahedron    |-> [class |-> "Tetrahedron",
                         params |-> <<"x", "y", "z", "edge_length">>]]

(* ------------------------------------------------------------------------ *)
(* The shape constructors (spec.md sections 3, 4.1-4.6)                     *)
(* ------------------------------------------------------------------------ *)

\* the constructor's positional parameters, in order
CtorParams(class) ==
    CASE class = "Point" -> <<"x", "y">>
      [] class = "Line" -> <<"x1", "y1", "x2", "y2">>
      [] class = "Circle" -> <<"center_x", "center_y", "radius">>
      [] class = "Square" -> <<"x", "y", "side_length">>
      [] class = "Rectangle" -> <<"x", "y", "width", "height">>
      [] class = "RegularPolygon" -> <<"center_x", "center_y", "num_sides", "side_length">>
      [] class = "Parallelepiped" -> <<"x", "y", "z", "width", "height", "depth">>
      [] class = "Tetrahedron" -> <<"x", "y", "z", "edge_length">>

SizeNames == {"radius", "side_length", "width", "height", "depth", "edge_length"}

\* validation on construction: every size is > 0, num_sides is an integer >= 3,
\* coordinates are unconstrained
ValidParams(class, numeric_params) ==
    /\ Len(numeric_params) = Len(CtorParams(class))
    /\ \A i \in 1..Len(numeric_params) :
          /\ CtorParams(class)[i] \in SizeNames => numeric_params[i].num > 0
          /\ CtorParams(class)[i] = "num_sides" =>
                /\ numeric_params[i].kind = "int"
                /\ numeric_params[i].num >= 3

\* the constructed instance; id 0 stands for "not assigned yet"
NewShape(class, numeric_params, name) ==
    [class |-> class, id |-> 0, name |-> name, attrs |-> numeric_params]

(* ------------------------------------------------------------------------ *)
(* create                                                                   *)
(* ------------------------------------------------------------------------ *)

\* what the history variable records about the command just processed:
\* its word, its arguments, how it ended, the constructor call it made
\* (<<>> when the constructor was not called) and the value it reported
\* (<<>> when it reported none)
Done(cmd, args, outcome, call, out) ==
    [cmd |-> cmd, args |-> args, outcome |-> outcome, call |-> call, out |-> out]

\* variant: params = args[1:]
TakeParamsAll(args, required_params) == SubSeq(args, 2, Len(args))

\* variant: params = args[0:len(required_params)]
TakeParamsShifted(args, required_params) == SubSeq(args, 1, Len(required_params))

\* params = args[1:len(required_params) + 1]
TakeParams(args, required_params) == SubSeq(args, 2, Len(required_params) + 1)

\* variant: every token of a polygon is converted with int()
UsesIntAlways(shape_type, params, i) == shape_type = "polygon"

\* one pass of the conversion loop: int() for a polygon's token that compares
\* equal to params[2], float() for every other token
UsesInt(shape_type, params, i) == shape_type = "polygon" /\ params[i] = params[3]

\* the loop completes without ValueError
Convertible(shape_type, params) ==
    \A i \in 1..Len(params) :
        IF UsesInt(shape_type, params, i)
        THEN IsIntText(params[i])
        ELSE IsFloatText(params[i])

NumericParams(shape_type, params) ==
    [i \in 1..Len(params) |->
        IF UsesInt(shape_type, params, i) THEN IntOf(params[i]) ELSE FloatOf(params[i])]

\* variant: the default name is numbered by the size of the collection
ShapeNameByCount(args, shape_type, required_params, nid) ==
    IF Len(args) > Len(required_params) + 1
    THEN args[Len(required_params) + 2]
    ELSE Capitalize(shape_type) \o " " \o ToString(Cardinality(DOMAIN shapes) + 1)

\* the name token when one is typed, else "<Type> <next_id>"
ShapeName(args, shape_type, required_params, nid) ==
    IF Len(args) > Len(required_params) + 1
    THEN args[Len(required_params) + 2]
    ELSE Capitalize(shape_type) \o " " \o ToString(nid)

\* variant: the shape is stored without its id being assigned
StoreShapeNoId(shs, nid, shape) ==
    [k \in (DOMAIN shs) \cup {nid} |-> IF k = nid THEN shape ELSE shs[k]]

\* variant: the counter is advanced before the id is assigned
StoreShapeAhead(shs, nid, shape) ==
    [k \in (DOMAIN shs) \cup {nid + 1} |->
        IF k = nid + 1 THEN [shape EXCEPT !.id = nid + 1] ELSE shs[k]]

\* shape.id = self.next_id; self.shapes[shape.id] = shape
StoreShape(shs, nid, shape) ==
    [k \in (DOMAIN shs) \cup {nid} |->
        IF k = nid THEN [shape EXCEPT !.id = nid] ELSE shs[k]]

\* variant: the counter is not advanced
BumpIdStuck(nid) == nid

\* self.next_id += 1
BumpId(nid) == nid + 1

\* variant: the id is consumed before the request is validated
RejectBumps(args, outcome, call) ==
    /\ last' = Done("create", args, outcome, call, <<>>)
    /\ next_id' = next_id + 1
    /\ UNCHANGED <<shapes, running, given, reported>>

\* an error is printed and the command returns (or the constructor's exception
\* is caught and printed): nothing is stored
Reject(args, outcome, call) ==
    /\ last' = Done("create", args, outcome, call, <<>>)
    /\ UNCHANGED <<shapes, next_id, running, given, reported>>

create_shape(args) ==
    IF args = <<>>
    THEN Reject(args, "no_type", <<>>)
    ELSE
    LET shape_type == Lower(args[1]) IN
    IF shape_type \notin DOMAIN shape_types
    THEN Reject(args, "unknown_type", <<>>)
    ELSE
    LET shape_info == shape_types[shape_type]
        required_params == shape_info.params
    IN
    IF Len(args) - 1 < Len(required_params)
    THEN Reject(args, "too_few", <<>>)
    ELSE
    LET params == TakeParams(args, required_params) IN
    IF ~Convertible(shape_type, params)
    THEN Reject(args, "not_numeric", <<>>)
    ELSE
    LET numeric_params == NumericParams(shape_type, params)
        name == ShapeName(args, shape_type, required_params, next_id)
        shape_class == shape_info.class
        call == <<[class |-> shape_class, params |-> numeric_params, name |-> name]>>
    IN
    IF ~ValidParams(shape_class, numeric_params)
    THEN Reject(args, "ctor_error", call)
    ELSE /\ shapes' = StoreShape(shapes, next_id,
                                 NewShape(shape_class, numeric_params, name))
         /\ next_id' = BumpId(next_id)
         /\ last' = Done("create", args, "created", call, <<>>)
         /\ given' = Append(given, next_id)
         /\ UNCHANGED <<running, reported>>

(* ------------------------------------------------------------------------ *)
(* list, info, delete, clear, help, exit                                    *)
(* ------------------------------------------------------------------------ *)

\* shape.get_info() (spec.md section 4.1): a read of the shape's fields
GetInfo(shape) ==
    [id |-> shape.id, name |-> shape.name, type |-> shape.class, attrs |-> shape.attrs]

show_help(args) ==
    /\ last' = Done("help", args, "help", <<>>, <<>>)
    /\ UNCHANGED <<shapes, next_id, running, given, reported>>

list_shapes(args) ==
    /\ last' = Done("list", args, IF DOMAIN shapes = {} THEN "empty_list" ELSE "listed",
                    <<>>, <<DOMAIN shapes>>)
    /\ UNCHANGED <<shapes, next_id, running, given, reported>>

\* variant: shape = self.shapes.pop(shape_id), the lookup removes the shape
show_shape_info_pops(args) ==
    /\ UNCHANGED <<next_id, running, given, reported>>
    /\ IF args = <<>>
       THEN last' = Done("info", args, "no_id", <<>>, <<>>) /\ UNCHANGED shapes
       ELSE IF ~IsIntText(args[1])
       THEN last' = Done("info", args, "bad_id", <<>>, <<>>) /\ UNCHANGED shapes
       ELSE LET shape_id == IntOf(args[1]).num IN
            IF shape_id \notin DOMAIN shapes
            THEN last' = Done("info", args, "not_found", <<>>, <<>>) /\ UNCHANGED shapes
            ELSE /\ last' = Done("info", args, "info", <<>>, <<GetInfo(shapes[shape_id])>>)
                 /\ shapes' = [k \in (DOMAIN shapes) \ {shape_id} |-> shapes[k]]

show_shape_info(args) ==
    /\ UNCHANGED <<shapes, next_id, running, given>>
    /\ IF args = <<>>
       THEN last' = Done("info", args, "no_id", <<>>, <<>>) /\ UNCHANGED reported
       ELSE IF ~IsIntText(args[1])
       THEN last' = Done("info", args, "bad_id", <<>>, <<>>) /\ UNCHANGED reported
       ELSE LET shape_id == IntOf(args[1]).num IN
            IF shape_id \notin DOMAIN shapes
            THEN last' = Done("info", args, "not_found", <<>>, <<>>) /\ UNCHANGED reported
            ELSE LET info == GetInfo(shapes[shape_id]) IN
                 /\ last' = Done("info", args, "info", <<>>, <<info>>)
                 /\ reported' = <<[id |-> shape_id, info |-> info,
                                   again |-> reported # <<>> /\ reported[1].id = shape_id]>>

\* variant: self.shapes.popitem(), the most recently stored shape is removed
PopLast(shs, shape_id) ==
    [k \in (DOMAIN shs) \ {CHOOSE m \in DOMAIN shs : \A j \in DOMAIN shs : j <= m} |-> shs[k]]

\* self.shapes.pop(shape_id)
PopShape(shs, shape_id) == [k \in (DOMAIN shs) \ {shape_id} |-> shs[k]]

\* variant: a delete gives the id back to the counter
delete_shape_reclaims(args) ==
    IF args = <<>> \/ ~IsIntText(args[1]) \/ IntOf(args[1]).num \notin DOMAIN shapes
    THEN /\ last' = Done("delete", args, "not_found", <<>>, <<>>)
         /\ UNCHANGED <<shapes, next_id, running, given, reported>>
    ELSE /\ shapes' = [k \in (DOMAIN shapes) \ {IntOf(args[1]).num} |-> shapes[k]]
         /\ next_id' = next_id - 1
         /\ last' = Done("delete", args, "deleted", <<>>, <<IntOf(args[1]).num>>)
         /\ UNCHANGED <<running, given, reported>>

\* the reported mapping is dropped when its shape is among the removed ids
Forget(rep, ids) == IF rep # <<>> /\ rep[1].id \in ids THEN <<>> ELSE rep

delete_shape(args) ==
    IF args = <<>>
    THEN /\ last' = Done("delete", args, "no_id", <<>>, <<>>)
         /\ UNCHANGED <<shapes, next_id, running, given, reported>>
    ELSE IF ~IsIntText(args[1])
    THEN /\ last' = Done("delete", args, "bad_id", <<>>, <<>>)
         /\ UNCHANGED <<shapes, next_id, running, given, reported>>
    ELSE LET shape_id == IntOf(args[1]).num IN
         IF shape_id \notin DOMAIN shapes
         THEN /\ last' = Done("delete", args, "not_found", <<>>, <<>>)
              /\ UNCHANGED <<shapes, next_id, running, given, reported>>
         ELSE /\ shapes' = PopShape(shapes, shape_id)
              /\ last' = Done("delete", args, "deleted", <<>>, <<shape_id>>)
              /\ reported' = Forget(reported, {shape_id})
              /\ UNCHANGED <<next_id, running, given>>

\* variant: clear also resets the id counter
clear_shapes_resets(args) ==
    /\ shapes' = <<>>
    /\ next_id' = 1
    /\ last' = Done("clear", args, "cleared", <<>>, <<Cardinality(DOMAIN shapes)>>)
    /\ reported' = <<>>
    /\ UNCHANGED <<running, given>>

\* variant: count = len(self.shapes) is taken after the collection is cleared
clear_shapes_counts_after(args) ==
    /\ shapes' = <<>>
    /\ last' = Done("clear", args, "cleared", <<>>, <<0>>)
    /\ reported' = <<>>
    /\ UNCHANGED <<next_id, running, given>>

\* self.shapes.clear()
ClearAll(shs) == [k \in {} |-> shs[k]]

clear_shapes(args) ==
    /\ shapes' = ClearAll(shapes)
    /\ last' = Done("clear", args, "cleared", <<>>, <<Cardinality(DOMAIN shapes)>>)
    /\ reported' = Forget(reported, DOMAIN shapes)
    /\ UNCHANGED <<next_id, running, given>>

\* variant: the exit is raised as an Exception, which run() catches and prints
exit_editor_swallowed(args) ==
    /\ last' = Done("exit", args, "exit", <<>>, <<>>)
    /\ UNCHANGED <<shapes, next_id, running, given, reported>>

\* sys.exit(0): SystemExit is not an Exception, so run()'s generic handler
\* does not catch it and the loop is left
exit_editor(args) ==
    /\ running' = FALSE
    /\ last' = Done("exit", args, "exit", <<>>, <<>>)
    /\ UNCHANGED <<shapes, next_id, given, reported>>

(* ------------------------------------------------------------------------ *)
(* process_command and run                                                  *)
(* ------------------------------------------------------------------------ *)

commands == {"help", "create", "list", "info", "delete", "clear", "exit"}

\* parts is the command line after strip().split()
process_command(parts) ==
    IF parts = <<>>
    THEN /\ last' = Done("", <<>>, "empty_line", <<>>, <<>>)
         /\ UNCHANGED <<shapes, next_id, running, given, reported>>
    ELSE
    LET command == Lower(parts[1])
        args == Tail(parts)
    IN
    IF command \in commands
    THEN CASE command = "help" -> show_help(args)
           [] command = "create" -> create_shape(args)
           [] command = "list" -> list_shapes(args)
           [] command = "info" -> show_shape_info(args)
           [] command = "delete" -> delete_shape(args)
           [] command = "clear" -> clear_shapes(args)
           [] command = "exit" -> exit_editor(args)
    ELSE /\ last' = Done(command, args, "unknown_command", <<>>, <<>>)
         /\ UNCHANGED <<shapes, next_id, running, given, reported>>

\* one turn of run(): input() returned a line and it is processed
Turn(parts) == running /\ process_command(parts)

\* variant: the generic handler leaves the loop
HandleExceptionBreaks(cmd, args) ==
    /\ running' = FALSE
    /\ last' = Done(cmd, args, "exception", <<>>, <<>>)
    /\ UNCHANGED <<shapes, next_id, given, reported>>

\* except Exception as e: the error is printed and the loop goes on
HandleException(cmd, args) ==
    /\ last' = Done(cmd, args, "exception", <<>>, <<>>)
    /\ UNCHANGED <<shapes, next_id, running, given, reported>>

\* a turn of run() in which the call into the shape made by the info command
\* (shape.get_info(), then json.dumps) raises: the exception leaves
\* show_shape_info and process_command and reaches run()'s generic handler
TurnRaising(parts) ==
    /\ running
    /\ Len(parts) >= 2
    /\ Lower(parts[1]) = "info"
    /\ IsIntText(parts[2])
    /\ IntOf(parts[2]).num \in DOMAIN shapes
    /\ HandleException(Lower(parts[1]), Tail(parts))

\* input() raised EOFError, or KeyboardInterrupt was raised: break
Break(why) ==
    /\ running
    /\ running' = FALSE
    /\ last' = Done("", <<>>, why, <<>>, <<>>)
    /\ UNCHANGED <<shapes, next_id, given, reported>>

(* ------------------------------------------------------------------------ *)
(* The session: command lines a user types                                  *)
(* ------------------------------------------------------------------------ *)

SessionCreateArgs ==
    { <<>>,
      <<"blob", "0", "0">>,
      <<"point", "0">>,
      <<"point", "0", "abc">>,
      <<"point", "0", "-1">>,
      <<"point", "0", "-1", "abc">>,
      <<"point", "0", "-1", "abc", "3">>,
      <<"line", "0", "0", "3", "3.5">>,
      <<"Circle", "-1", "0", "3.5">>,
      <<"circle", "0", "0", "-1">>,
      <<"square", "0", "0", "3">>,
      <<"rectangle", "0", "0", "3", "0">>,
      <<"rectangle", "0", "0", "3", "2">>,
      <<"polygon", "0", "0", "3", "3.5">>,
      <<"polygon", "3", "0", "3", "3">>,
      <<"POLYGON", "0", "0", "2", "3.5">>,
      <<"polygon", "0", "0", "3.5", "3">>,
      <<"parallelepiped", "0", "0", "0", "2", "3", "3.5">>,
      <<"tetrahedron", "0", "-1", "0", "2">> }

\* the ids a delete or info command may name: every id the session can assign,
\* one that it cannot, and texts int() rejects
SessionIdArgs ==
    { <<>>, <<"abc">>, <<"3.5">>, <<"0">> }
        \cup { <<ToString(k)>> : k \in 1..(MaxId + 1) }

Init ==
    /\ shapes = <<>>
    /\ next_id = 1
    /\ running = TRUE
    /\ last = Done("", <<>>, "start", <<>>, <<>>)
    /\ given = <<>>
    /\ reported = <<>>

Create == next_id <= MaxId /\ \E args \in SessionCreateArgs :
                                  Turn(<<"create">> \o args)

Delete == \E args \in SessionIdArgs : Turn(<<"delete">> \o args)

Info == \E args \in SessionIdArgs : Turn(<<"info">> \o args)

InfoRaises == \E args \in SessionIdArgs : TurnRaising(<<"info">> \o args)

List == Turn(<<"list">>)

Help == Turn(<<"help">>)

Clear == Turn(<<"clear">>)

Exit == \E word \in {"exit", "EXIT"} : Turn(<<word>>)

Unknown == Turn(<<"move", "1">>)

EmptyLine == Turn(<<>>)

EndOfInput == Break("eof")

Interrupt == Break("interrupt")

Next ==
    \/ Create
    \/ Delete
    \/ Info
    \/ InfoRaises
    \/ List
    \/ Help
    \/ Clear
    \/ Exit
    \/ Unknown
    \/ EmptyLine
    \/ EndOfInput
    \/ Interrupt

Spec == Init /\ [][Next]_vars

(* ------------------------------------------------------------------------ *)
(* One create command over every argument list, issued in a session state   *)
(* ------------------------------------------------------------------------ *)

Tokens == {"-1", "0", "2", "3", "3.5", "abc"}

\* the tokens tried for the six-parameter type
SolidTokens == {"-1", "0", "3.5", "abc"}

NameTokens == {"abc", "3"}

TypeWords == (DOMAIN shape_types) \cup {"Circle", "blob"}

TokensFor(word) == IF Lower(word) = "parallelepiped" THEN SolidTokens ELSE Tokens

\* the number of parameter tokens tried after a type word
ArityOf(word) ==
    IF Lower(word) \in DOMAIN shape_types
    THEN Len(shape_types[Lower(word)].params)
    ELSE 1

\* the tokens after the parameters: none, or a name followed by up to
\* MaxExtra - 1 further tokens
Extras ==
    {<<>>} \cup { <<name>> \o [i \in 1..j |-> "3"] :
                    name \in NameTokens, j \in 0..(MaxExtra - 1) }

PrepArgs == <<"point", "0", "-1">>

\* the session so far consists of PrepArgs creates and deletes only
InPrep ==
    \/ last.outcome = "start"
    \/ last.cmd = "delete"
    \/ last.cmd = "create" /\ last.args = PrepArgs

PrepCreate == InPrep /\ next_id <= MaxId /\ Turn(<<"create">> \o PrepArgs)

PrepDelete == InPrep /\ \E k \in 1..MaxId : Turn(<<"delete", ToString(k)>>)

\* "create" alone, or a type word followed by 0..arity parameter tokens and,
\* when the parameters are complete, by 0..MaxExtra further tokens
AnyCreate ==
    /\ InPrep
    /\ next_id <= MaxId
    /\ \/ Turn(<<"create">>)
       \/ \E word \in TypeWords : \E k \in 0..ArityOf(word) :
             \E ps \in [1..k -> TokensFor(word)] :
                \E ex \in (IF k = ArityOf(word) THEN Extras ELSE {<<>>}) :
                    Turn(<<"create", word>> \o ps \o ex)

NextCreate ==
    \/ PrepCreate
    \/ PrepDelete
    \/ AnyCreate

SpecCreate == Init /\ [][NextCreate]_vars

(* ------------------------------------------------------------------------ *)
(* Properties                                                               *)
(* ------------------------------------------------------------------------ *)

CreateErrors == {"no_type", "unknown_type", "too_few", "not_numeric", "ctor_error"}

\* the command just processed is a create that ended as 'shape created'
Created(l) == l.cmd = "create" /\ l.outcome = "created"

\* the number of parameters the registry requires for the type word of args
RequiredCount(args) == Len(shape_types[Lower(args[1])].params)

\* C1: a create command that ends with an error report (no type, unknown
\* type, too few parameters, a non-numeric token, the constructor rejecting its
\* parameters) leaves the collection and next_id exactly as they were.
C1_FailedCreateStoresNothing ==
    [][ (last'.cmd = "create" /\ last'.outcome \in CreateErrors)
            => (shapes' = shapes /\ next_id' = next_id) ]_vars

\* a constructor has just rejected its parameters while shapes are stored
C1_Witness ==
    /\ last.cmd = "create"
    /\ last.outcome = "ctor_error"
    /\ Cardinality(DOMAIN shapes) >= 1

\* C2: the stored shapes have pairwise distinct ids, and each is stored under
\* exactly one key, its own id.
C2_KeysAreIds ==
    \A j \in DOMAIN shapes : \A k \in DOMAIN shapes :
        /\ shapes[k].id = k
        /\ j # k => (shapes[j].id # shapes[k].id /\ shapes[j] # shapes[k])

\* two shapes are stored
C2_Witness == Cardinality(DOMAIN shapes) >= 2

\* C3: a stored shape stays under its id with the same name and attributes
\* until a delete command naming its id, or a clear command, is executed.
C3_ShapePersists ==
    [][ \A k \in DOMAIN shapes :
            \/ k \in DOMAIN shapes' /\ shapes'[k] = shapes[k]
            \/ /\ last'.cmd = "delete"
               /\ Len(last'.args) >= 1
               /\ last'.args[1] = ToString(k)
            \/ last'.cmd = "clear" ]_vars

\* a delete has removed one shape and another shape is still stored
C3_Witness ==
    /\ last.cmd = "delete"
    /\ last.outcome = "deleted"
    /\ Cardinality(DOMAIN shapes) >= 1

\* C4: a successful create adds exactly one shape, an instance of the class
\* registered for the requested type, under the id next_id had before the
\* command; next_id grows by exactly 1; the shapes already stored are untouched.
C4_CreateAddsOne ==
    [][ Created(last') =>
            /\ next_id \notin DOMAIN shapes
            /\ DOMAIN shapes' = (DOMAIN shapes) \cup {next_id}
            /\ shapes'[next_id].id = next_id
            /\ shapes'[next_id].class = shape_types[Lower(last'.args[1])].class
            /\ next_id' = next_id + 1
            /\ \A k \in DOMAIN shapes : shapes'[k] = shapes[k] ]_vars

\* a create has just succeeded next to a shape stored earlier
C4_Witness == Created(last) /\ Cardinality(DOMAIN shapes) >= 2

\* C5: the ids given to created shapes are strictly increasing in creation
\* order, starting from 1, also across deletes and clears; next_id never
\* decreases and clear leaves it as it is.
C5_IdsNeverReused ==
    /\ [](/\ Len(given) >= 1 => given[1] = 1
          /\ \A i \in 1..Len(given) : \A j \in 1..Len(given) :
                i < j => given[i] < given[j])
    /\ [][ /\ next_id' >= next_id
           /\ last'.cmd = "clear" => next_id' = next_id ]_vars

\* a create has succeeded after an earlier shape was removed
C5_Witness ==
    /\ Created(last)
    /\ Len(given) >= 2
    /\ Cardinality(DOMAIN shapes) < Len(given)

\* C10: a shape created without a name token is named "<Type> <id>", with the
\* id it is stored under, in any sequence of commands.
C10_DefaultName ==
    (Created(last) /\ Len(last.args) <= RequiredCount(last.args) + 1) =>
        LET id == given[Len(given)] IN
        /\ id \in DOMAIN shapes
        /\ shapes[id].id = id
        /\ shapes[id].name =
               Capitalize(Lower(last.args[1])) \o " " \o ToString(shapes[id].id)

\* an unnamed shape has been created after a create, and a removal
C10_Witness ==
    /\ Created(last)
    /\ Len(last.args) <= RequiredCount(last.args) + 1
    /\ Len(given) >= 2
    /\ Cardinality(DOMAIN shapes) < Len(given)

\* the registry knows the type word of args
KnownType(args) == args # <<>> /\ Lower(args[1]) \in DOMAIN shape_types

\* the parameter names the registry requires for the type word of args
Required(args) == shape_types[Lower(args[1])].params

\* every required token is typed and is the text of a number
AllNumeric(args) ==
    /\ Len(args) >= RequiredCount(args) + 1
    /\ \A i \in 1..RequiredCount(args) : IsFloatText(args[i + 1])

\* C6: the create command rejects a request before calling the constructor
\* only for a missing or unknown type, too few parameters, or a token that is
\* not numeric; a polygon whose num_sides token is numeric but not an integer
\* reaches the constructor.
C6_OnlySyntaxRejectedEarly ==
    (last.cmd = "create" /\ last.call = <<>>) =>
        \/ ~KnownType(last.args)
        \/ Len(last.args) - 1 < RequiredCount(last.args)
        \/ ~AllNumeric(last.args)

\* C7: every constructor call passes exactly the required number of
\* parameters, the typed tokens converted to numbers in the order typed; the
\* first token after them is the name, and further tokens do not make the
\* command fail.
C7_CallMatchesRegistry ==
    (last.cmd = "create" /\ KnownType(last.args)) =>
        LET args == last.args
            n == RequiredCount(args)
        IN
        /\ last.call # <<>> =>
              /\ Len(args) >= n + 1
              /\ last.call[1].class = shape_types[Lower(args[1])].class
              /\ Len(last.call[1].params) = n
              /\ \A i \in 1..n :
                    /\ IsFloatText(args[i + 1])
                    /\ last.call[1].params[i].kind \in {"int", "float"}
                    /\ last.call[1].params[i].num = FloatOf(args[i + 1]).num
                    /\ last.call[1].params[i].den = FloatOf(args[i + 1]).den
              /\ Len(args) > n + 1 => last.call[1].name = args[n + 2]
        /\ ( /\ AllNumeric(args)
             /\ Lower(args[1]) = "polygon" => IsIntText(args[4]) )
              => last.call # <<>>

\* a shape has been created by a command with two tokens after its parameters
C7_Witness ==
    /\ Created(last)
    /\ Len(last.args) = RequiredCount(last.args) + 3
    /\ last.call # <<>>

\* the type of args has a size parameter
SizeBearing(args) ==
    KnownType(args) /\ \E i \in 1..RequiredCount(args) : Required(args)[i] \in SizeNames

\* a typed size parameter of args is zero or negative
SizeNotPositive(args) ==
    \E i \in 1..RequiredCount(args) :
        /\ Required(args)[i] \in SizeNames
        /\ i + 1 <= Len(args)
        /\ IsFloatText(args[i + 1])
        /\ FloatOf(args[i + 1]).num <= 0

\* every parameter is a number, every size is positive and a side count is an
\* integer of at least 3
ValidRequest(args) ==
    /\ AllNumeric(args)
    /\ \A i \in 1..RequiredCount(args) :
          /\ Required(args)[i] \in SizeNames => FloatOf(args[i + 1]).num > 0
          /\ Required(args)[i] = "num_sides" =>
                (IsIntText(args[i + 1]) /\ IntOf(args[i + 1]).num >= 3)

\* the step stored exactly one shape, of the class registered for args, with
\* the typed parameters as its attributes
AddsShape(args) ==
    /\ DOMAIN shapes' = (DOMAIN shapes) \cup {next_id}
    /\ next_id \notin DOMAIN shapes
    /\ shapes'[next_id].class = shape_types[Lower(args[1])].class
    /\ \A i \in 1..RequiredCount(args) :
          /\ shapes'[next_id].attrs[i].num = FloatOf(args[i + 1]).num
          /\ shapes'[next_id].attrs[i].den = FloatOf(args[i + 1]).den

\* C8: for every size-bearing type, a create command with a zero or negative
\* size parameter fails and adds no shape; one with valid sizes and any finite
\* coordinates, negative and zero included, succeeds and adds the shape.
C8_SizesDecide ==
    [][ (last'.cmd = "create" /\ SizeBearing(last'.args)) =>
            /\ SizeNotPositive(last'.args) =>
                  (last'.outcome \in CreateErrors /\ shapes' = shapes)
            /\ ValidRequest(last'.args) =>
                  (last'.outcome = "created" /\ AddsShape(last'.args)) ]_vars

\* a rectangle with a positive width and a zero height has been refused while
\* a shape is stored
C8_Witness ==
    /\ last.cmd = "create"
    /\ Len(last.args) >= 5
    /\ Lower(last.args[1]) = "rectangle"
    /\ last.args[4] = "3"
    /\ last.args[5] = "0"
    /\ last.outcome = "ctor_error"
    /\ Cardinality(DOMAIN shapes) >= 1

\* C9: create polygon with an integer num_sides below 3 fails and adds no
\* shape; with num_sides = 3 and a positive side_length it succeeds and adds a
\* polygon, whatever the centre coordinates are.
C9_PolygonSides ==
    [][ ( /\ last'.cmd = "create"
          /\ KnownType(last'.args)
          /\ Lower(last'.args[1]) = "polygon"
          /\ Len(last'.args) >= 5 ) =>
            /\ (IsIntText(last'.args[4]) /\ IntOf(last'.args[4]).num < 3) =>
                  (last'.outcome \in CreateErrors /\ shapes' = shapes)
            /\ ( /\ last'.args[4] = "3"
                 /\ IsFloatText(last'.args[2])
                 /\ IsFloatText(last'.args[3])
                 /\ IsFloatText(last'.args[5])
                 /\ FloatOf(last'.args[5]).num > 0 ) =>
                  /\ last'.outcome = "created"
                  /\ AddsShape(last'.args)
                  /\ shapes'[next_id].class = "RegularPolygon" ]_vars

\* a triangle with negative centre coordinates has been created
C9_Witness ==
    /\ Created(last)
    /\ Len(last.args) >= 5
    /\ Lower(last.args[1]) = "polygon"
    /\ last.args[2] = "-1"
    /\ last.args[3] = "-1"
    /\ last.args[4] = "3"
    /\ given[Len(given)] \in DOMAIN shapes
    /\ shapes[given[Len(given)]].class = "RegularPolygon"

\* C11: info and list are pure reads: whatever their arguments they leave the
\* collection, every stored shape and next_id unchanged, and an info command on
\* an id reports the mapping the previous info command on that id reported,
\* when that shape was not changed in between.
C11_ReadsArePure ==
    [][ last'.cmd \in {"info", "list"} =>
            /\ shapes' = shapes
            /\ next_id' = next_id
            /\ ( /\ last'.outcome = "info"
                 /\ reported # <<>>
                 /\ last'.args[1] = ToString(reported[1].id) )
                  => last'.out = <<reported[1].info>> ]_vars

\* an info command has reported on a shape that the info command before it
\* reported on, while another shape is stored
C11_Witness ==
    /\ last.cmd = "info"
    /\ last.outcome = "info"
    /\ reported # <<>>
    /\ reported[1].again
    /\ Cardinality(DOMAIN shapes) >= 2

\* C12: a failing command never ends the session: after a failed create, an
\* unknown command, an empty line, a bad or missing id, or an exception raised
\* while a command is processed, the loop is still running; it is left only on
\* the exit command, end of input, or a keyboard interrupt.
C12_FailureKeepsSession ==
    /\ [](~running => last.outcome \in {"exit", "eof", "interrupt"})
    /\ [][ (running /\ last'.outcome \notin {"exit", "eof", "interrupt"})
              => running' ]_vars

\* an exception raised while a command was processed has been caught and the
\* loop is running
C12_Witness ==
    /\ running
    /\ last.outcome = "exception"
    /\ Cardinality(DOMAIN shapes) >= 1

\* C13: a delete command naming the id of a stored shape removes exactly that
\* shape and leaves every other shape and next_id unchanged; a delete with no
\* argument, a non-integer argument or an id that is not stored changes nothing.
C13_DeleteRemovesOne ==
    [][ last'.cmd = "delete" =>
            /\ next_id' = next_id
            /\ IF /\ last'.args # <<>>
                  /\ \E k \in DOMAIN shapes : last'.args[1] = ToString(k)
               THEN \E k \in DOMAIN shapes :
                       /\ last'.args[1] = ToString(k)
                       /\ DOMAIN shapes' = (DOMAIN shapes) \ {k}
                       /\ \A j \in DOMAIN shapes' : shapes'[j] = shapes[j]
               ELSE shapes' = shapes ]_vars

\* a delete has removed one of two stored shapes
C13_Witness ==
    /\ last.cmd = "delete"
    /\ last.outcome = "deleted"
    /\ Cardinality(DOMAIN shapes) >= 1
    /\ last.out[1] \notin DOMAIN shapes

\* C14: after a clear command the collection is empty, the count it reports is
\* the number of shapes stored immediately before, and next_id is unchanged.
C14_ClearEmpties ==
    [][ last'.cmd = "clear" =>
            /\ DOMAIN shapes' = {}
            /\ last'.out = <<Cardinality(DOMAIN shapes)>>
            /\ next_id' = next_id ]_vars

\* a clear has removed two shapes
C14_Witness ==
    /\ last.cmd = "clear"
    /\ last.out = <<2>>
    /\ DOMAIN shapes = {}
    /\ next_id = 3

\* C15: every key of the collection is an integer k with 1 <= k < next_id, so
\* a create never stores its shape under a key that is already present.
C15_KeysBelowCounter ==
    /\ [](\A k \in DOMAIN shapes : k \in Int /\ 1 <= k /\ k < next_id)
    /\ [][ Created(last') =>
              /\ given'[Len(given')] \notin DOMAIN shapes
              /\ \A k \in DOMAIN shapes : shapes'[k] = shapes[k] ]_vars

\* a shape has been created while another was stored and an earlier one removed
C15_Witness ==
    /\ Created(last)
    /\ Cardinality(DOMAIN shapes) >= 1
    /\ next_id = MaxId + 1

\* C16: for a polygon exactly the third parameter (num_sides) is converted to
\* an integer and every other parameter to a real number, whatever the text of
\* the tokens, also when another token has the text of the num_sides token; for
\* every other type all parameters are converted to real numbers.
C16_OnlyNumSidesIsInt ==
    (last.cmd = "create" /\ last.call # <<>>) =>
        \A i \in 1..Len(last.call[1].params) :
            last.call[1].params[i].kind =
                IF Lower(last.args[1]) = "polygon" /\ i = 3 THEN "int" ELSE "float"

\* C17: the exit command ends the session: once it has been processed no
\* command is read or processed and the collection is not modified again; the
\* exit is not swallowed by the loop's generic exception handler.
C17_ExitIsFinal ==
    /\ [](last.outcome = "exit" => ~running)
    /\ [][ running /\ last.outcome # "exit" ]_vars

\* the exit command has been processed while shapes are stored
C17_Witness ==
    /\ last.cmd = "exit"
    /\ ~running
    /\ Cardinality(DOMAIN shapes) >= 1

====
